---- MODULE Spec2Model ----
(***************************************************************************)
(* Instance-lifecycle registry of the Alias Editor plugin (src/src/lib.rs). *)
(*                                                                         *)
(* The plugin object holds two mutex-guarded fields, the map `editors` and *)
(* the counter `next_editor_id`.  Host threads call create_editor (&self), *)
(* on_unload (&mut self) and, through the values create_editor returns,    *)
(* the EditorInstance methods of AliasEditorWrapper.                       *)
(*                                                                         *)
(* Heap objects are named after the create_editor call that built them:    *)
(* call c builds the entity (panel) c, the Arc allocation c, the Box       *)
(* [call |-> c, copy |-> "orig"] and, by wrapper.clone(), the Box          *)
(* [call |-> c, copy |-> "clone"].                                         *)
(***************************************************************************)
EXTENDS Integers, Sequences, FiniteSets, TLC

\* ---------------------------------------------------------------- bounds
MaxCalls == 2
MaxUnloads == 2

\* the host threads that call into the plugin: the UI thread and a worker
Threads == {"ui", "worker"}

\* ---------------------------------------------------------------- inputs
\* editor identifiers the host may pass to create_editor
EditorIds == {"alias-editor", "blueprint-editor"}

\* file paths the host may pass, as sequences of components
AliasDir == <<"x", "MyAlias.alias">>
AliasFile == <<"x", "MyAlias.alias", "alias.json">>
Paths == {AliasDir, AliasFile}

\* PathBuf::is_dir on the paths above
IsDir(p) == p = AliasDir

\* PathBuf::join with a relative one-component path
Join(p, name) == Append(p, name)

\* ---------------------------------------------------------------- state
VARIABLES
  editors,          \* self.editors: id -> EditorStorage
  next_editor_id,   \* self.next_editor_id
  editorsLock,      \* holder of the editors mutex (set of at most one thread)
  counterLock,      \* holder of the next_editor_id mutex
  pc,               \* per thread: position inside the current call
  frame,            \* per thread: locals of the current call
  hostPanels,       \* Arc<dyn PanelView> values the host holds (by call)
  hostWrappers,     \* Box<dyn EditorInstance> values the host owns
  lastRet,          \* the value the most recent call returned
  panels,           \* entities built by cx.new: call -> path of the editor,
                    \* strong count of its Arc, count of its Entity handles,
                    \* whether the editor has unsaved changes
  reports,          \* the counts on_unload gave to the diagnostic sink, in order
  calls,            \* number of create_editor calls started so far
  unloads,          \* number of on_unload calls started so far
  allocated,        \* history: the identities handed out, in allocation order
  registered,       \* history: call -> identity it was inserted under
  returned,         \* history: create_editor calls that returned Ok
  createdSince,     \* history: Ok returns since construction / last clear
  unloadedUpTo      \* history: calls started before the last completed unload

vars == <<editors, next_editor_id, editorsLock, counterLock, pc, frame,
          hostPanels, hostWrappers, lastRet, panels, reports, calls,
          unloads, allocated, registered, returned, createdSince, unloadedUpTo>>

\* ------------------------------------------------------------ data types
EmptyMap == [k \in {} |-> 0]

\* struct EditorStorage { panel, wrapper }
EditorStorage(arc, box) == [panel |-> arc, wrapper |-> box]

\* struct AliasEditorWrapper { panel, file_path }, boxed; `copy` tells the
\* Box built by Box::new from the one built by wrapper.clone()
Wrapper(c, copy, path) == [call |-> c, copy |-> copy, panel |-> c, file_path |-> path]

IdleFrame ==
  [op |-> "none", editor_id |-> "", file_path |-> <<>>, actual_path |-> <<>>,
   call |-> 0, events |-> <<>>, id |-> {}, storage |-> {}, pred |-> {},
   count |-> {}, mark |-> 0]

Has(seq, x) == \E i \in 1..Len(seq) : seq[i] = x

\* ------------------------------------------------------------- Default
\* the plugin as it would be built with the counter at one
InitFromOne ==
  /\ editors = EmptyMap
  /\ next_editor_id = 1
  /\ editorsLock = {}
  /\ counterLock = {}
  /\ pc = [t \in Threads |-> "idle"]
  /\ frame = [t \in Threads |-> IdleFrame]
  /\ hostPanels = {}
  /\ hostWrappers = {}
  /\ lastRet = [op |-> "none"]
  /\ panels = EmptyMap
  /\ reports = <<>>
  /\ calls = 0
  /\ unloads = 0
  /\ allocated = <<>>
  /\ registered = EmptyMap
  /\ returned = {}
  /\ createdSince = 0
  /\ unloadedUpTo = 0

\* impl Default for AliasEditorPlugin
Init ==
  /\ editors = EmptyMap
  /\ next_editor_id = 0
  /\ editorsLock = {}
  /\ counterLock = {}
  /\ pc = [t \in Threads |-> "idle"]
  /\ frame = [t \in Threads |-> IdleFrame]
  /\ hostPanels = {}
  /\ hostWrappers = {}
  /\ lastRet = [op |-> "none"]
  /\ panels = EmptyMap
  /\ reports = <<>>
  /\ calls = 0
  /\ unloads = 0
  /\ allocated = <<>>
  /\ registered = EmptyMap
  /\ returned = {}
  /\ createdSince = 0
  /\ unloadedUpTo = 0

\* ------------------------------------------------------------ borrowing
\* create_editor takes &self: it may run beside other &self calls, never
\* beside a call that holds &mut self
CanBorrowShared(t) == \A u \in Threads \ {t} : frame[u].op # "unload"

\* on_unload as it would be with a shared borrow (fn on_unload(&self))
CanBorrowMutAliased(t) == \A u \in Threads \ {t} : frame[u].op # "unload"

\* on_unload takes &mut self: no other call on the plugin is in progress
CanBorrowMut(t) == \A u \in Threads \ {t} : frame[u].op = "none"

\* ------------------------------------------------------- pure functions
\* fn editors(): the identifiers the plugin declares
DeclaredEditors == {"alias-editor"}

\* the test as it would be if it let every identifier through
IsAliasEditorAny(editor_id) == editor_id \in EditorIds

\* the test `editor_id.as_str() == "alias-editor"` of create_editor
IsAliasEditor(editor_id) == editor_id = "alias-editor"

\* the resolution as it would be without the join for a directory
ActualPathNoJoin(file_path) == file_path

\* let actual_path = if file_path.is_dir() { join } else { clone }
ActualPath(file_path) ==
  IF IsDir(file_path) THEN Join(file_path, "alias.json") ELSE file_path

\* the counter as it would be without the increment
NextIdStuck(n) == n

\* `*next_id += 1`
NextId(n) == n + 1

\* history and heap maps: m with v under k
Put(m, k, v) == [x \in DOMAIN m \cup {k} |-> IF x = k THEN v ELSE m[x]]

\* insert as it would be under a key that ignores the identity
InsertAtZero(m, k, v) == Put(m, 0, v)

\* HashMap::insert: an existing value under the key is replaced (and dropped)
Insert(m, k, v) == [x \in DOMAIN m \cup {k} |-> IF x = k THEN v ELSE m[x]]

\* HashMap::len
MapLen(m) == Cardinality(DOMAIN m)

\* clear as it would be if it removed nothing
ClearedNothing(m) == m

\* HashMap::clear
Cleared(m) == EmptyMap

\* a clone of the Arc as it would be if it did not count (a raw pointer copy)
ArcCloneNoCount(h, c) == h

\* Arc::clone: one more strong reference to the allocation of call c
ArcClone(h, c) == [h EXCEPT ![c].arc = @ + 1]

\* Entity::clone (by the derived Clone of AliasEditorWrapper)
EntityClone(h, c) == [h EXCEPT ![c].entity = @ + 1]

\* drop of an Entity handle; the panel object is freed at count 0
DropEntity(h, c) == [h EXCEPT ![c].entity = @ - 1]

\* drop of an Arc<dyn PanelView>; the last one drops the Entity handle in it
DropArc(h, c) ==
  [h EXCEPT ![c].arc = @ - 1,
            ![c].entity = IF h[c].arc = 1 THEN @ - 1 ELSE @]

\* drop of an EditorStorage: its Arc and its Box<AliasEditorWrapper>
DropStorage(h, st) == DropEntity(DropArc(h, st.panel), st.wrapper.panel)

\* drop of every value of the map m
DropValues(h, m) ==
  [c \in DOMAIN h |->
     IF \E k \in DOMAIN m : m[k].panel = c
       THEN DropStorage(h, m[CHOOSE k \in DOMAIN m : m[k].panel = c])[c]
       ELSE h[c]]

\* the panel object of call c has been freed
Freed(c) == c \in DOMAIN panels /\ panels[c].entity <= 0

\* the statement order with the identity allocated before the construction
NextStepAllocFirst(p) ==
  CASE p = "check" -> "alloc_lock"
    [] p = "alloc" -> "construct"
    [] p = "construct" -> "reg_lock"
    [] p = "reg_insert" -> "log"
    [] p = "log" -> "ret"

\* the order of the statements of create_editor's success branch: the label
\* at which the statement after the one ending at label p begins
NextStep(p) ==
  CASE p = "check" -> "construct"
    [] p = "construct" -> "alloc_lock"
    [] p = "alloc" -> "reg_lock"
    [] p = "reg_insert" -> "log"
    [] p = "log" -> "ret"

\* ------------------------------------------------------- create_editor
\* entry of create_editor; the two logger.info calls go to the host's logger
CreateStart(t, editor_id, file_path) ==
  /\ pc[t] = "idle"
  /\ calls < MaxCalls
  /\ CanBorrowShared(t)
  /\ calls' = calls + 1
  /\ frame' = [frame EXCEPT ![t] =
       [IdleFrame EXCEPT !.op = "create", !.editor_id = editor_id,
                         !.file_path = file_path, !.call = calls + 1,
                         !.pred = returned]]
  /\ pc' = [pc EXCEPT ![t] = "check"]
  /\ UNCHANGED <<editors, next_editor_id, editorsLock, counterLock, hostPanels,
                 hostWrappers, lastRet, panels, reports, unloads,
                 allocated, registered, returned, createdSince, unloadedUpTo>>

\* if editor_id.as_str() == "alias-editor" { .. } else { Err(EditorNotFound) }
CheckEditorId(t) ==
  /\ pc[t] = "check"
  /\ IF IsAliasEditor(frame[t].editor_id)
       THEN /\ pc' = [pc EXCEPT ![t] = NextStep("check")]
            /\ UNCHANGED <<frame, lastRet>>
       ELSE /\ pc' = [pc EXCEPT ![t] = "idle"]
            /\ frame' = [frame EXCEPT ![t] = IdleFrame]
            /\ lastRet' = [op |-> "create_editor", result |-> "Err",
                           error |-> "EditorNotFound",
                           editor_id |-> frame[t].editor_id]
  /\ UNCHANGED <<editors, next_editor_id, editorsLock, counterLock, hostPanels,
                 hostWrappers, panels, reports, calls, unloads,
                 allocated, registered, returned, createdSince, unloadedUpTo>>

\* actual_path, cx.new(AliasEditor::new_with_file), Arc::new, Box::new
Construct(t) ==
  /\ pc[t] = "construct"
  /\ frame' = [frame EXCEPT ![t].actual_path = ActualPath(frame[t].file_path),
                            ![t].events = Append(@, "construct")]
  /\ panels' = Put(panels, frame[t].call,
                   [path |-> ActualPath(frame[t].file_path), arc |-> 1,
                    entity |-> 2, dirty |-> FALSE])
  /\ pc' = [pc EXCEPT ![t] = NextStep("construct")]
  /\ UNCHANGED <<editors, next_editor_id, editorsLock, counterLock, hostPanels,
                 hostWrappers, lastRet, reports, calls, unloads,
                 allocated, registered, returned, createdSince, unloadedUpTo>>

\* self.next_editor_id.lock().unwrap()
AllocLock(t) ==
  /\ pc[t] = "alloc_lock"
  /\ counterLock = {}
  /\ counterLock' = {t}
  /\ pc' = [pc EXCEPT ![t] = "alloc"]
  /\ UNCHANGED <<editors, next_editor_id, editorsLock, frame, hostPanels,
                 hostWrappers, lastRet, panels, reports, calls,
                 unloads, allocated, registered, returned, createdSince,
                 unloadedUpTo>>

\* the allocation as it would be without the block around it: the guard of
\* the counter stays alive
AllocIdKeepsGuard(t) ==
  /\ pc[t] = "alloc"
  /\ counterLock = {t}
  /\ frame' = [frame EXCEPT ![t].id = {next_editor_id},
                            ![t].events = Append(@, "alloc")]
  /\ next_editor_id' = NextId(next_editor_id)
  /\ allocated' = Append(allocated, next_editor_id)
  /\ counterLock' = counterLock
  /\ pc' = [pc EXCEPT ![t] = NextStep("alloc")]
  /\ UNCHANGED <<editors, editorsLock, hostPanels, hostWrappers, lastRet,
                 panels, reports, calls, unloads, registered,
                 returned, createdSince, unloadedUpTo>>

\* let id = *next_id; *next_id += 1; id   (the guard is dropped at the `}`)
AllocId(t) ==
  /\ pc[t] = "alloc"
  /\ counterLock = {t}
  /\ frame' = [frame EXCEPT ![t].id = {next_editor_id},
                            ![t].events = Append(@, "alloc")]
  /\ next_editor_id' = NextId(next_editor_id)
  /\ allocated' = Append(allocated, next_editor_id)
  /\ counterLock' = {}
  /\ pc' = [pc EXCEPT ![t] = NextStep("alloc")]
  /\ UNCHANGED <<editors, editorsLock, hostPanels, hostWrappers, lastRet,
                 panels, reports, calls, unloads, registered,
                 returned, createdSince, unloadedUpTo>>

\* self.editors.lock().unwrap(): the receiver of .insert, evaluated first
RegLock(t) ==
  /\ pc[t] = "reg_lock"
  /\ editorsLock = {}
  /\ editorsLock' = {t}
  /\ pc' = [pc EXCEPT ![t] = "reg_clone"]
  /\ UNCHANGED <<editors, next_editor_id, counterLock, frame, hostPanels,
                 hostWrappers, lastRet, panels, reports, calls,
                 unloads, allocated, registered, returned, createdSince,
                 unloadedUpTo>>

\* the argument of .insert: EditorStorage { panel_arc.clone(), wrapper.clone() }
RegClone(t) ==
  /\ pc[t] = "reg_clone"
  /\ editorsLock = {t}
  /\ Has(frame[t].events, "construct")
  /\ frame' = [frame EXCEPT ![t].storage =
       {EditorStorage(frame[t].call,
                      Wrapper(frame[t].call, "clone", frame[t].file_path))}]
  /\ panels' = EntityClone(ArcClone(panels, frame[t].call), frame[t].call)
  /\ pc' = [pc EXCEPT ![t] = "reg_insert"]
  /\ UNCHANGED <<editors, next_editor_id, editorsLock, counterLock, hostPanels,
                 hostWrappers, lastRet, reports, calls,
                 unloads, allocated, registered, returned, createdSince,
                 unloadedUpTo>>

\* .insert(id, storage); the temporary guard is dropped at the `;`
RegInsert(t) ==
  /\ pc[t] = "reg_insert"
  /\ editorsLock = {t}
  /\ \E id \in frame[t].id, st \in frame[t].storage :
       /\ editors' = Insert(editors, id, st)
       /\ panels' = IF id \in DOMAIN editors
                      THEN DropStorage(panels, editors[id]) ELSE panels
       /\ registered' = Put(registered, frame[t].call, id)
  /\ frame' = [frame EXCEPT ![t].events = Append(@, "insert"),
                            ![t].storage = {}]
  /\ editorsLock' = {}
  /\ pc' = [pc EXCEPT ![t] = NextStep("reg_insert")]
  /\ UNCHANGED <<next_editor_id, counterLock, hostPanels, hostWrappers, lastRet,
                 reports, calls, unloads, allocated, returned,
                 createdSince, unloadedUpTo>>

\* log::info!("Created alias editor instance {} for {:?}", id, file_path_for_log)
CreateLog(t) ==
  /\ pc[t] = "log"
  /\ frame[t].id # {}
  /\ pc' = [pc EXCEPT ![t] = NextStep("log")]
  /\ UNCHANGED <<editors, next_editor_id, editorsLock, counterLock, frame,
                 hostPanels, hostWrappers, lastRet, panels, reports, calls,
                 unloads, allocated, registered, returned, createdSince,
                 unloadedUpTo>>

\* Ok((panel_arc, wrapper)): both values move to the host
CreateRet(t) ==
  /\ pc[t] = "ret"
  /\ LET c == frame[t].call
         w == Wrapper(c, "orig", frame[t].file_path)
     IN /\ hostPanels' = hostPanels \cup {c}
        /\ hostWrappers' = hostWrappers \cup {w}
        /\ lastRet' = [op |-> "create_editor", result |-> "Ok", panel |-> c,
                       wrapper |-> w]
        /\ returned' = returned \cup {c}
  /\ createdSince' = createdSince + 1
  /\ frame' = [frame EXCEPT ![t] = IdleFrame]
  /\ pc' = [pc EXCEPT ![t] = "idle"]
  /\ UNCHANGED <<editors, next_editor_id, editorsLock, counterLock, panels, reports, calls, unloads, allocated, registered,
                 unloadedUpTo>>

\* ----------------------------------------------------------- on_unload
UnloadStart(t) ==
  /\ pc[t] = "idle"
  /\ unloads < MaxUnloads
  /\ CanBorrowMut(t)
  /\ unloads' = unloads + 1
  /\ frame' = [frame EXCEPT ![t] = [IdleFrame EXCEPT !.op = "unload",
                                                     !.mark = calls]]
  /\ pc' = [pc EXCEPT ![t] = "u_lock"]
  /\ UNCHANGED <<editors, next_editor_id, editorsLock, counterLock, hostPanels,
                 hostWrappers, lastRet, panels, reports, calls,
                 allocated, registered, returned, createdSince, unloadedUpTo>>

\* let mut editors = self.editors.lock().unwrap();
UnloadLock(t) ==
  /\ pc[t] = "u_lock"
  /\ editorsLock = {}
  /\ editorsLock' = {t}
  /\ pc' = [pc EXCEPT ![t] = "u_len"]
  /\ UNCHANGED <<editors, next_editor_id, counterLock, frame, hostPanels,
                 hostWrappers, lastRet, panels, reports, calls,
                 unloads, allocated, registered, returned, createdSince,
                 unloadedUpTo>>

\* let count = editors.len();
UnloadLen(t) ==
  /\ pc[t] = "u_len"
  /\ editorsLock = {t}
  /\ frame' = [frame EXCEPT ![t].count = {MapLen(editors)}]
  /\ pc' = [pc EXCEPT ![t] = "u_clear"]
  /\ UNCHANGED <<editors, next_editor_id, editorsLock, counterLock, hostPanels,
                 hostWrappers, lastRet, panels, reports, calls,
                 unloads, allocated, registered, returned, createdSince,
                 unloadedUpTo>>

\* clear as it would be if unloading also reset the identity counter
UnloadClearResets(t) ==
  /\ pc[t] = "u_clear"
  /\ editorsLock = {t}
  /\ editors' = Cleared(editors)
  /\ next_editor_id' = 0
  /\ panels' = DropValues(panels, editors)
  /\ pc' = [pc EXCEPT ![t] = "u_log"]
  /\ UNCHANGED <<editorsLock, counterLock, frame, hostPanels,
                 hostWrappers, lastRet, reports, calls,
                 unloads, allocated, registered, returned, createdSince,
                 unloadedUpTo>>

\* editors.clear();
UnloadClear(t) ==
  /\ pc[t] = "u_clear"
  /\ editorsLock = {t}
  /\ editors' = Cleared(editors)
  /\ panels' = DropValues(panels, editors)
  /\ pc' = [pc EXCEPT ![t] = "u_log"]
  /\ UNCHANGED <<next_editor_id, editorsLock, counterLock, frame, hostPanels,
                 hostWrappers, lastRet, reports, calls,
                 unloads, allocated, registered, returned, createdSince,
                 unloadedUpTo>>

\* log::info!("... (cleaned up {} editors)", count), the guard still alive
UnloadLog(t) ==
  /\ pc[t] = "u_log"
  /\ editorsLock = {t}
  /\ \E n \in frame[t].count : reports' = Append(reports, n)
  /\ pc' = [pc EXCEPT ![t] = "u_ret"]
  /\ UNCHANGED <<editors, next_editor_id, editorsLock, counterLock, frame,
                 hostPanels, hostWrappers, lastRet, panels, calls, unloads,
                 allocated, registered, returned, createdSince, unloadedUpTo>>

\* end of on_unload: the guard `editors` goes out of scope
UnloadRet(t) ==
  /\ pc[t] = "u_ret"
  /\ editorsLock = {t}
  /\ editorsLock' = {}
  /\ unloadedUpTo' = frame[t].mark
  /\ createdSince' = 0
  /\ lastRet' = [op |-> "on_unload"]
  /\ frame' = [frame EXCEPT ![t] = IdleFrame]
  /\ pc' = [pc EXCEPT ![t] = "idle"]
  /\ UNCHANGED <<editors, next_editor_id, counterLock, hostPanels, hostWrappers,
                 panels, reports, calls, unloads, allocated, registered,
                 returned>>

\* ------------------------------------- EditorInstance for AliasEditorWrapper
\* a method of a wrapper is called by a host thread that is in no other call
HostThreadFree == \E t \in Threads : pc[t] = "idle"

\* what a method of the wrapper leaves alone
WrapperFrame ==
  UNCHANGED <<editors, next_editor_id, editorsLock, counterLock, pc, frame,
              hostPanels, hostWrappers, reports, calls,
              unloads, allocated, registered, returned, createdSince, unloadedUpTo>>

\* the results plugin_save and plugin_reload of the editor object may give:
\* Ok(()) or one of two PluginError values
EditorResults == {"Ok", "IoError", "FormatError"}

\* the editor object after plugin_save or plugin_reload gave r: a successful
\* one leaves no unsaved change
AfterSync(h, c, r) == IF r = "Ok" THEN [h EXCEPT ![c].dirty = FALSE] ELSE h

\* the wrapper's result as it would be if it swallowed the editor's error
PropagateSwallowed(r) == "Ok"

\* panel.update(cx, |panel, cx| ..) yields the closure's value, which is the
\* method's return value
Propagate(r) == r

\* save as it would be if it also closed the editor it saves
SaveEvicts(w) ==
  /\ HostThreadFree
  /\ w \in hostWrappers
  /\ \E r \in EditorResults :
       /\ lastRet' = [op |-> "save", underlying |-> r, result |-> Propagate(r)]
       /\ panels' = AfterSync(panels, w.panel, r)
  /\ editors' = [k \in {x \in DOMAIN editors : editors[x].panel # w.panel}
                  |-> editors[k]]
  /\ UNCHANGED <<next_editor_id, editorsLock, counterLock, pc, frame,
                 hostPanels, hostWrappers, reports, calls,
                 unloads, allocated, registered, returned, createdSince,
                 unloadedUpTo>>

\* fn save: self.panel.update(cx, |panel, cx| panel.plugin_save(window, cx))
Save(w) ==
  /\ HostThreadFree
  /\ w \in hostWrappers
  /\ \E r \in EditorResults :
       /\ lastRet' = [op |-> "save", underlying |-> r, result |-> Propagate(r)]
       /\ panels' = AfterSync(panels, w.panel, r)
  /\ WrapperFrame

\* fn reload: self.panel.update(cx, |panel, cx| panel.plugin_reload(window, cx))
Reload(w) ==
  /\ HostThreadFree
  /\ w \in hostWrappers
  /\ \E r \in EditorResults :
       /\ lastRet' = [op |-> "reload", underlying |-> r, result |-> Propagate(r)]
       /\ panels' = AfterSync(panels, w.panel, r)
  /\ WrapperFrame

\* fn is_dirty: false
IsDirty(w) ==
  /\ HostThreadFree
  /\ w \in hostWrappers
  /\ lastRet' = [op |-> "is_dirty", dirty |-> panels[w.panel].dirty,
                 result |-> FALSE]
  /\ UNCHANGED panels
  /\ WrapperFrame

\* fn file_path: &self.file_path
FilePath(w) ==
  /\ HostThreadFree
  /\ w \in hostWrappers
  /\ lastRet' = [op |-> "file_path", result |-> w.file_path]
  /\ UNCHANGED panels
  /\ WrapperFrame

\* fn as_any: self
AsAny(w) ==
  /\ HostThreadFree
  /\ w \in hostWrappers
  /\ lastRet' = [op |-> "as_any", result |-> w]
  /\ UNCHANGED panels
  /\ WrapperFrame

\* ------------------------------------------------- the host's own handles
\* the host releases its Arc<dyn PanelView> of call c
HostDropPanel(c) ==
  /\ c \in hostPanels
  /\ hostPanels' = hostPanels \ {c}
  /\ panels' = DropArc(panels, c)
  /\ UNCHANGED <<editors, next_editor_id, editorsLock, counterLock, pc, frame,
                 hostWrappers, lastRet, reports, calls, unloads, allocated,
                 registered, returned, createdSince, unloadedUpTo>>

\* the host drops the Box<dyn EditorInstance> w it owns
HostDropWrapper(w) ==
  /\ w \in hostWrappers
  /\ hostWrappers' = hostWrappers \ {w}
  /\ panels' = DropEntity(panels, w.panel)
  /\ UNCHANGED <<editors, next_editor_id, editorsLock, counterLock, pc, frame,
                 hostPanels, lastRet, reports, calls, unloads, allocated,
                 registered, returned, createdSince, unloadedUpTo>>

\* -------------------------------------------------------- specification
\* the operations of the plugin: the steps of create_editor and on_unload
PluginNext ==
  \/ \E t \in Threads, e \in EditorIds, p \in Paths : CreateStart(t, e, p)
  \/ \E t \in Threads : CheckEditorId(t)
  \/ \E t \in Threads : Construct(t)
  \/ \E t \in Threads : AllocLock(t)
  \/ \E t \in Threads : AllocId(t)
  \/ \E t \in Threads : RegLock(t)
  \/ \E t \in Threads : RegClone(t)
  \/ \E t \in Threads : RegInsert(t)
  \/ \E t \in Threads : CreateLog(t)
  \/ \E t \in Threads : CreateRet(t)
  \/ \E t \in Threads : UnloadStart(t)
  \/ \E t \in Threads : UnloadLock(t)
  \/ \E t \in Threads : UnloadLen(t)
  \/ \E t \in Threads : UnloadClear(t)
  \/ \E t \in Threads : UnloadLog(t)
  \/ \E t \in Threads : UnloadRet(t)

\* the plugin, with a host that calls the methods of the wrappers it got
Next ==
  \/ PluginNext
  \/ \E w \in hostWrappers : Save(w)
  \/ \E w \in hostWrappers : Reload(w)
  \/ \E w \in hostWrappers : IsDirty(w)
  \/ \E w \in hostWrappers : FilePath(w)
  \/ \E w \in hostWrappers : AsAny(w)

Spec == Init /\ [][Next]_vars

\* a step of thread t inside a call it has started
ThreadStep(t) ==
  \/ CheckEditorId(t) \/ Construct(t) \/ AllocLock(t) \/ AllocId(t)
  \/ RegLock(t) \/ RegClone(t) \/ RegInsert(t) \/ CreateLog(t) \/ CreateRet(t)
  \/ UnloadLock(t) \/ UnloadLen(t) \/ UnloadClear(t) \/ UnloadLog(t)
  \/ UnloadRet(t)

\* the plugin alone, every host thread scheduled again and again while it is
\* inside a call
SpecFair ==
  Init /\ [][PluginNext]_vars /\ \A t \in Threads : WF_vars(ThreadStep(t))

\* the user changes the type alias shown by the editor of call c
Edit(c) ==
  /\ c \in DOMAIN panels
  /\ ~Freed(c)
  /\ ~panels[c].dirty
  /\ panels' = [panels EXCEPT ![c].dirty = TRUE]
  /\ UNCHANGED <<editors, next_editor_id, editorsLock, counterLock, pc, frame,
                 hostPanels, hostWrappers, lastRet, reports, calls, unloads,
                 allocated, registered, returned, createdSince, unloadedUpTo>>

\* the plugin and the wrapper methods, with a user who edits in the editors
NextEdit ==
  \/ Next
  \/ \E c \in DOMAIN panels : Edit(c)

SpecEdit == Init /\ [][NextEdit]_vars

\* the plugin, with a host that releases the handles it got
NextHeap ==
  \/ PluginNext
  \/ \E c \in hostPanels : HostDropPanel(c)
  \/ \E w \in hostWrappers : HostDropWrapper(w)

SpecHeap == Init /\ [][NextHeap]_vars

\* ------------------------------------------------------------ properties
IsPrefix(a, b) == Len(a) <= Len(b) /\ \A i \in 1..Len(a) : a[i] = b[i]

\* the labels at which the next step of a thread is a call into the host's
\* render context, the diagnostic sink or the underlying editor object
CallsOut(p) == p \in {"construct", "log", "u_log"}

\* a wrapper the host holds reaches its editor object: the Box owns a strong
\* Entity handle, so the entity it names is alive
CanReachEditor(w) ==
  w \in hostWrappers /\ w.panel \in DOMAIN panels /\ ~Freed(w.panel)

\* a step that is a call of one EditorInstance method of a wrapper
WrapperCall ==
  \E w \in hostWrappers :
    Save(w) \/ Reload(w) \/ IsDirty(w) \/ FilePath(w) \/ AsAny(w)

\* C1: the identities under which create_editor registers its instances are
\* pairwise distinct; they increase in the order in which the calls take them
\* from the counter, and a call that started after another call had returned
\* is registered under a greater identity than that call.
C1_UniqueIncreasing ==
  /\ \A i, j \in 1..Len(allocated) : i < j => allocated[i] < allocated[j]
  /\ \A c, d \in DOMAIN registered : c # d => registered[c] # registered[d]
  /\ \A t \in Threads : \A id \in frame[t].id : \A d \in frame[t].pred :
       d \in DOMAIN registered /\ registered[d] < id

\* two overlapping calls, registered in the order opposite to their starts
C1_Witness ==
  /\ DOMAIN registered = {1, 2}
  /\ registered[2] < registered[1]
  /\ \E t \in Threads : frame[t].call = 1 /\ pc[t] = "ret"

\* C2: with no on_unload so far and no create_editor in progress, the
\* registry holds exactly as many entries as create_editor calls returned Ok.
C2_RegistrySize ==
  (unloads = 0 /\ \A t \in Threads : frame[t].op # "create")
    => MapLen(editors) = Cardinality(returned)

C2_Witness ==
  /\ unloads = 0
  /\ \A t \in Threads : pc[t] = "idle"
  /\ Cardinality(returned) = MaxCalls
  /\ MapLen(editors) = MaxCalls

\* C3: when on_unload is about to return, the registry is empty and the count
\* it reported is the number of create_editor calls that returned Ok since
\* the plugin was built or since the previous on_unload; an on_unload right
\* after another one therefore reports 0.
C3_UnloadTotality ==
  \A t \in Threads :
    pc[t] = "u_ret" =>
      /\ editors = EmptyMap
      /\ reports[Len(reports)] = createdSince

\* K = 2 creations, an on_unload that reports 2, a second one that reports 0
C3_Witness ==
  /\ \E t \in Threads : pc[t] = "u_ret"
  /\ Cardinality(returned) = 2
  /\ reports = <<2, 0>>

\* C4: a create_editor call whose editor_id is not declared by editors()
\* returns EditorNotFound with that editor_id at its check, and that step
\* changes neither the registry nor the counter nor the set of editor objects.
C4_RoutingError ==
  [][\A t \in Threads :
       (pc[t] = "check" /\ pc'[t] # "check"
          /\ frame[t].editor_id \notin DeclaredEditors)
       => /\ pc'[t] = "idle"
          /\ lastRet' = [op |-> "create_editor", result |-> "Err",
                         error |-> "EditorNotFound",
                         editor_id |-> frame[t].editor_id]
          /\ UNCHANGED <<editors, next_editor_id, panels, allocated>>]_vars

\* an EditorNotFound return while the registry holds an entry
C4_Witness ==
  /\ lastRet = [op |-> "create_editor", result |-> "Err",
                error |-> "EditorNotFound", editor_id |-> "blueprint-editor"]
  /\ MapLen(editors) = 1
  /\ next_editor_id = 1
  /\ \A t \in Threads : pc[t] = "idle"

\* C5: every control wrapper the host holds is the very object a registry
\* entry stores, so the registry is the only owner of control wrappers.
C5_RegistrySoleOwner ==
  \A w \in hostWrappers : \E k \in DOMAIN editors : editors[k].wrapper = w

\* C6: once an on_unload has completed, no wrapper of a create_editor call
\* that started before it can still reach its editor object.
C6_NoWrapperOutlivesUnload ==
  \A w \in hostWrappers : w.call <= unloadedUpTo => ~CanReachEditor(w)

\* C7: a call of save, reload, is_dirty, file_path or as_any on a wrapper
\* leaves the registry's keys (and entries) and the counter as they were.
C7_WrapperOpsFrame ==
  [][WrapperCall =>
       /\ DOMAIN editors' = DOMAIN editors
       /\ editors' = editors
       /\ next_editor_id' = next_editor_id]_vars

\* a failed save while the registry holds an entry
C7_Witness ==
  /\ lastRet.op = "save"
  /\ lastRet.result # "Ok"
  /\ MapLen(editors) >= 1
  /\ next_editor_id >= 1

\* C8: the registry holds no entry of a create_editor call that started
\* before the last completed on_unload started.
C8_NoSurvivor ==
  \A k \in DOMAIN editors : editors[k].panel > unloadedUpTo

\* two creations, then a completed on_unload
C8_Witness ==
  /\ unloadedUpTo = 2
  /\ returned = {1, 2}
  /\ editors = EmptyMap
  /\ \A t \in Threads : pc[t] = "idle"

\* C9: a thread that holds the registry lock is not about to call into the
\* host, the diagnostic sink or the editor object, and in create_editor it
\* holds the lock only with the storage to insert already built.
C9_NoCallOutUnderLock ==
  \A t \in editorsLock :
    /\ ~CallsOut(pc[t])
    /\ frame[t].op = "create" => frame[t].storage # {}

\* C10 as stated: identity first, construction second, insertion third.
C10_AllocConstructInsert ==
  \A t \in Threads :
    frame[t].op = "create" =>
      IsPrefix(frame[t].events, <<"alloc", "construct", "insert">>)

\* C10, amended: within a create_editor call the editor object, the display
\* handle and the wrapper are constructed first, the identity is allocated
\* second, and the registry lock is taken and the entry inserted third.
C10_ConstructAllocInsert ==
  \A t \in Threads :
    frame[t].op = "create" =>
      IsPrefix(frame[t].events, <<"construct", "alloc", "insert">>)

C10_Witness ==
  \E t \in Threads :
    /\ pc[t] = "ret"
    /\ frame[t].events = <<"construct", "alloc", "insert">>

\* C11: the path file_path() returns on a handle is the resolved artifact
\* path with which that handle's editor object was constructed.
C11_FilePathResolved ==
  lastRet.op = "file_path" =>
    \E w \in hostWrappers :
      /\ lastRet.result = w.file_path
      /\ lastRet.result = panels[w.panel].path

\* C12: the editor object of a create_editor call is constructed with
\* file_path joined with alias.json when file_path is the directory, and
\* with file_path itself when it is the file.
C12_PathResolution ==
  \A t \in Threads :
    (frame[t].op = "create" /\ Has(frame[t].events, "construct")) =>
      /\ frame[t].file_path = <<"x", "MyAlias.alias">>
           => /\ panels[frame[t].call].path = <<"x", "MyAlias.alias", "alias.json">>
              /\ frame[t].actual_path = <<"x", "MyAlias.alias", "alias.json">>
      /\ frame[t].file_path = <<"x", "MyAlias.alias", "alias.json">>
           => /\ panels[frame[t].call].path = frame[t].file_path
              /\ frame[t].actual_path = frame[t].file_path

\* one call given the directory and one given the file, both constructed
C12_Witness ==
  \E t, u \in Threads :
    /\ frame[t].file_path = AliasDir /\ Has(frame[t].events, "construct")
    /\ frame[u].file_path = AliasFile /\ Has(frame[u].events, "construct")
    /\ panels[frame[t].call].path = AliasFile

\* C13: on_unload leaves the counter alone: every identity handed out so far
\* is below the counter, no identity is handed out twice, and a call that
\* started after a completed on_unload is registered under a greater
\* identity than every call that started before it.
C13_NoReuse ==
  /\ \A i \in 1..Len(allocated) : allocated[i] < next_editor_id
  /\ \A i, j \in 1..Len(allocated) : i # j => allocated[i] # allocated[j]
  /\ \A c, d \in DOMAIN registered :
       (c <= unloadedUpTo /\ unloadedUpTo < d) => registered[c] < registered[d]

\* a creation, a completed on_unload, then a creation under a new identity
C13_Witness ==
  /\ unloadedUpTo = 1
  /\ DOMAIN registered = {1, 2}
  /\ registered[1] = 0
  /\ registered[2] = 1
  /\ DOMAIN editors = {1}

C15_InsertFresh ==
  /\ \A t \in Threads : \A id \in frame[t].id :
       ~Has(frame[t].events, "insert") => id \notin DOMAIN editors
  /\ \A k \in DOMAIN editors :
       /\ k < next_editor_id
       /\ editors[k].panel \in DOMAIN registered
       /\ registered[editors[k].panel] = k
       /\ \A c \in DOMAIN registered : registered[c] = k => c = editors[k].panel

\* a call about to insert under identity 1 while identity 0 is a key
C15_Witness ==
  \E t \in Threads :
    /\ pc[t] = "reg_insert"
    /\ frame[t].id = {1}
    /\ DOMAIN editors = {0}

\* C16: the identities are handed out as 0, 1, 2, ... without a gap: the k-th
\* allocation yields k-1, the counter equals the number of allocations, and
\* every allocation belongs to a call that returned Ok or is on its way to;
\* a call that fails with EditorNotFound has taken none.
C16_GapFree ==
  /\ \A i \in 1..Len(allocated) : allocated[i] = i - 1
  /\ next_editor_id = Len(allocated)
  /\ Len(allocated) =
       Cardinality(returned) + Cardinality({t \in Threads : frame[t].id # {}})

\* a call that failed with EditorNotFound, then the first successful call
C16_Witness ==
  /\ calls = 2
  /\ returned = {2}
  /\ registered = Put(EmptyMap, 2, 0)
  /\ next_editor_id = 1

\* C17: save and reload return exactly what the editor object's routine
\* returned: Ok for Ok, and the same error for an error.
C17_Propagates ==
  lastRet.op \in {"save", "reload"} => lastRet.result = lastRet.underlying

\* a reload that failed in the editor object and returned that error
C17_Witness ==
  /\ lastRet.op = "reload"
  /\ lastRet.underlying = "FormatError"
  /\ lastRet.result = "FormatError"

\* C18: is_dirty returns true exactly when the editor has changes made since
\* the last successful save or reload.
C18_IsDirtyReportsState ==
  lastRet.op = "is_dirty" => lastRet.result = lastRet.dirty

\* C19: no thread ever holds the counter lock and the registry lock at the
\* same time, and under fair scheduling every call a thread has started
\* returns.
C19_NoDeadlock ==
  /\ [](\A t \in Threads : ~(t \in counterLock /\ t \in editorsLock))
  /\ \A t \in Threads : [](pc[t] # "idle" => <>(pc[t] = "idle"))

\* one thread holds the counter lock while the other, inside the insert,
\* holds the registry lock
C19_Witness ==
  \E t, u \in Threads :
    /\ t # u
    /\ counterLock = {t} /\ pc[t] = "alloc"
    /\ editorsLock = {u} /\ pc[u] = "reg_clone"

====
